---- MODULE Spec2Model ----
(***************************************************************************)
(* Model of package centra (otaxhu/centra): the error multiplexer Mux, its *)
(* middleware Handler, and the dispatch function Error.                    *)
(*                                                                         *)
(* Goroutines are the elements of Threads.  Each goroutine owns a call     *)
(* stack frames[t]; the top frame is the last element.  One action is one  *)
(* step of the code between two accesses to shared state (the RWMutex and  *)
(* the handlersStack slice of a Mux).                                      *)
(***************************************************************************)
EXTENDS Integers, Sequences, FiniteSets, TLC

\* ------------------------------------------------------------------ bounds
NumThreads == 2         \* goroutines
NumMuxes   == 2         \* Mux instances created by NewMux
MaxOps     == 4         \* top-level calls of a behaviour whose calls do not overlap
MaxConcOps == 3         \* top-level calls of a behaviour whose calls overlap
MaxTwoOps  == 2         \* top-level calls of a behaviour on two Muxes
MaxLiveOps == 2         \* top-level calls of a behaviour under fair scheduling
MaxHandlerOps == 3      \* top-level calls of a behaviour whose handlers panic or call Error
MaxErrorNest == 2       \* Error calls nested in one another through their handlers
MaxMapOps  == 3         \* top-level calls of a behaviour of a map-based revision
MaxWrap    == 2         \* deepest wrap-chain of a dispatched error (hops)
MaxNest    == 2         \* Handler wrappers nested around one downstream handler

Threads == 1..NumThreads
Muxes   == 1..NumMuxes

\* ------------------------------------------------------------ error values
\* An error value is its wrap-chain: the head is the error itself, Unwrap
\* yields the tail.  The nil error is the empty chain.
Nil == <<>>

Bases == {"A", "B"}

RECURSIVE WrapN(_, _)
WrapN(k, b) == IF k = 0 THEN <<b>> ELSE <<"W">> \o WrapN(k - 1, b)

\* errors a request handler may pass to Error
ErrorValues == {WrapN(k, b) : k \in 0..MaxWrap, b \in Bases}

\* sentinels a caller may pass to Handle
Sentinels == {<<"A">>, <<"B">>, <<"W", "A">>}

Unwrap(err) == Tail(err)

\* a comparison that does not follow the wrap-chain (err == target)
IsShallow(err, target) == err = target

\* errors.Is of the standard library, for errors without Is methods
RECURSIVE Is(_, _)
Is(err, target) ==
    IF err = Nil \/ target = Nil THEN err = target
    ELSE IF err = target THEN TRUE
    ELSE IF Unwrap(err) = Nil THEN FALSE
    ELSE Is(Unwrap(err), target)

\* ---------------------------------------------------------------- handlers
\* An ErrorHandlerFunc is identified by a number: every call of Handle or
\* UnknownHandler passes a fresh closure (its number is the call's number).
NilHandler == -1
DefaultUnknownHandler == 0

handlerStruct(err, handler) == [err |-> err, handler |-> handler]

\* ----------------------------------------------------------------- context
keyContext == "keyContext"
NoMux == 0
NoThread == 0

WithValue(ctx, key, val) == Append(ctx, [key |-> key, val |-> val])

RECURSIVE Value(_, _)
Value(ctx, key) ==
    IF ctx = <<>> THEN NoMux
    ELSE IF ctx[Len(ctx)].key = key THEN ctx[Len(ctx)].val
    ELSE Value(SubSeq(ctx, 1, Len(ctx) - 1), key)

\* the Mux bound first, by the outermost wrapper
getMuxOutermost(ctx) == IF ctx = <<>> THEN NoMux ELSE ctx[1].val

\* m, _ := r.Context().Value(keyContext{}).(*Mux)
getMux(ctx) == Value(ctx, keyContext)

VARIABLES
    handlersStack,  \* [Muxes -> Seq(handlerStruct)]: Mux.handlersStack
    mu,             \* [Muxes -> RWMutex state]: Mux.mu
    frames,         \* [Threads -> Seq(frame)]: call stack of each goroutine
    status,         \* [Threads -> "run" or the value of the panic in flight]
    nops,           \* number of top-level calls made so far
    env,            \* the callers: [serial, ops, muxes], fixed by the initial state
    hist,           \* history: [Muxes -> [unknown, done]], the handler of the last
                    \* UnknownHandler call that returned and the entries of the
                    \* Handle calls that returned
    w,              \* [Threads -> Seq(call)]: the calls made on the
                    \* http.ResponseWriter of the request the goroutine serves
    handlers        \* [Muxes -> [keys -> handler]]: Mux.handlers, the map of
                    \* the revisions of the package that came before the slice

vars == <<handlersStack, mu, frames, status, nops, env, hist, w, handlers>>

\* NewMux of the map-based revisions: map[error]func(...){nil: DefaultUnknownHandler}
NewMuxMap == [k \in {Nil} |-> DefaultUnknownHandler]

\* NewMux
NewMux == <<handlerStruct(Nil, DefaultUnknownHandler)>>

\* A frame: the function, where it stands, and its parameters and locals
\* (m: the Mux, err and h: the error and the handler, i: the loop index,
\* ctx: the request's context, s: the slice loaded by append).  History kept
\* with a frame of Error: inv, the handlers it invoked with their arguments;
\* seen, the entries whose Handle call had returned when it was called; n,
\* len(handlersStack) when the request was bound (kept with next too).
Frame(fn, pc, m, err, h) ==
    [fn |-> fn, pc |-> pc, m |-> m, err |-> err, h |-> h,
     i |-> 0, ctx |-> <<>>, s |-> <<>>, inv |-> <<>>, seen |-> {}, n |-> 0]

Top(t) == frames[t][Len(frames[t])]
Idle(t) == frames[t] = <<>> /\ status[t] = "run"
Running(t, fn, pc) ==
    /\ status[t] = "run"
    /\ frames[t] # <<>>
    /\ Top(t).fn = fn
    /\ Top(t).pc = pc

Push(t, f) == frames' = [frames EXCEPT ![t] = Append(@, f)]
Pop(t) == frames' = [frames EXCEPT ![t] = SubSeq(@, 1, Len(@) - 1)]
SetTop(t, f) == frames' = [frames EXCEPT ![t][Len(frames[t])] = f]

\* the top frame is left; when it is the outermost one the goroutine is done
\* with its request and the ResponseWriter of it is gone
Leave(t) ==
    /\ Pop(t)
    /\ w' = IF Len(frames[t]) = 1 THEN [w EXCEPT ![t] = <<>>] ELSE w

\* goroutine t may start a top-level call: it is between calls, the callers
\* have calls left and, when they call one at a time, no call is in progress
CanCall(t) ==
    /\ Idle(t)
    /\ nops < env.ops
    /\ env.serial => \A u \in Threads : Idle(u)

Start ==
    /\ handlersStack = [m \in Muxes |-> NewMux]
    /\ mu = [m \in Muxes |-> [readers |-> 0, writer |-> NoThread, held |-> FALSE]]
    /\ frames = [t \in Threads |-> <<>>]
    /\ status = [t \in Threads |-> "run"]
    /\ nops = 0
    /\ hist = [m \in Muxes |-> [unknown |-> DefaultUnknownHandler, done |-> {}]]
    /\ w = [t \in Threads |-> <<>>]
    /\ handlers = [m \in Muxes |-> NewMuxMap]

\* the calls of the goroutines do not overlap (set-up, then requests)
Init == Start /\ env = [serial |-> TRUE, ops |-> MaxOps, muxes |-> {1}]

\* the goroutines call concurrently
InitConc == Start /\ env = [serial |-> FALSE, ops |-> MaxConcOps, muxes |-> {1}]

\* the goroutines call concurrently, under fair scheduling
InitLive == Start /\ env = [serial |-> FALSE, ops |-> MaxLiveOps, muxes |-> {1}]

\* the goroutines call concurrently; their handlers may panic or call Error
InitHandlers == Start /\ env = [serial |-> FALSE, ops |-> MaxHandlerOps, muxes |-> {1}]

\* the goroutines call concurrently and use every Mux
InitTwo == Start /\ env = [serial |-> FALSE, ops |-> MaxTwoOps, muxes |-> Muxes]

\* ------------------------------------------------------------ sync.RWMutex
\* mu.writer is the goroutine that announced Lock (new readers wait for it),
\* mu.held says that it got the lock (the readers before it have left).
CanLock(m, t)    == mu[m].writer = NoThread
CanAcquireIgnoringReaders(m, t) == mu[m].writer = t
CanAcquire(m, t) == mu[m].writer = t /\ mu[m].readers = 0
CanRLockAlways(m, t) == TRUE
\* a lock that lets readers in until the writer has the lock
CanRLockUnlessHeld(m, t) == ~mu[m].held
CanRLock(m, t)   == mu[m].writer = NoThread

DoUnlock(m)  == mu' = [mu EXCEPT ![m] = [@ EXCEPT !.writer = NoThread, !.held = FALSE]]
\* RUnlock that leaves the reader count as it is
DoRUnlockKept(m) == UNCHANGED mu
DoRUnlock(m) == mu' = [mu EXCEPT ![m].readers = @ - 1]

PanicErrNil     == "centra: err must not be nil"
PanicHandlerNil == "centra: handler must not be nil"
PanicNoMux      == "centra: Mux has not been initialized, cannot call Error() for this request"
PanicInHandler  == "panic raised by an ErrorHandlerFunc"
PanicNilFunc    == "runtime error: invalid memory address or nil pointer dereference"

Panic(t, v) == status' = [status EXCEPT ![t] = v]

\* -------------------------------------------------------------- Mux.Handle
\* Handle without its check of the handler
EnterHandleNoHandlerCheck(t, m, err, handler) ==
    IF err = Nil
    THEN Push(t, Frame("Handle", "Panic", m, err, handler)) /\ Panic(t, PanicErrNil)
    ELSE Push(t, Frame("Handle", "Lock", m, err, handler)) /\ UNCHANGED status

\* entry of Handle up to m.mu.Lock(): the two nil checks.  A call that
\* panics stands at "Panic" until the panic leaves its frame.
EnterHandle(t, m, err, handler) ==
    IF err = Nil
    THEN Push(t, Frame("Handle", "Panic", m, err, handler)) /\ Panic(t, PanicErrNil)
    ELSE IF handler = NilHandler
    THEN Push(t, Frame("Handle", "Panic", m, err, handler)) /\ Panic(t, PanicHandlerNil)
    ELSE Push(t, Frame("Handle", "Lock", m, err, handler)) /\ UNCHANGED status

CallHandle(t) ==
    /\ CanCall(t)
    /\ nops' = nops + 1
    /\ \E m \in env.muxes, err \in Sentinels \cup {Nil}, handler \in {nops + 1, NilHandler} :
          EnterHandle(t, m, err, handler)
    /\ UNCHANGED <<handlers, handlersStack, mu, env, hist, w>>

\* Handle and UnknownHandler without m.mu.Lock()
LockSkipped(t) ==
    /\ status[t] = "run" /\ frames[t] # <<>>
    /\ Top(t).fn \in {"Handle", "UnknownHandler"}
    /\ Top(t).pc = "Lock"
    /\ SetTop(t, [Top(t) EXCEPT !.pc = "Locked"])
    /\ UNCHANGED <<handlers, handlersStack, mu, status, nops, env, hist, w>>

\* m.mu.Lock(), first half: announce the writer
Lock(t) ==
    /\ status[t] = "run" /\ frames[t] # <<>>
    /\ Top(t).fn \in {"Handle", "UnknownHandler"}
    /\ Top(t).pc = "Lock"
    /\ CanLock(Top(t).m, t)
    /\ mu' = [mu EXCEPT ![Top(t).m].writer = t]
    /\ SetTop(t, [Top(t) EXCEPT !.pc = "LockWait"])
    /\ UNCHANGED <<handlers, handlersStack, status, nops, env, hist, w>>

\* m.mu.Lock(), second half: wait for the active readers to leave
LockAcquire(t) ==
    /\ status[t] = "run" /\ frames[t] # <<>>
    /\ Top(t).fn \in {"Handle", "UnknownHandler"}
    /\ Top(t).pc = "LockWait"
    /\ CanAcquire(Top(t).m, t)
    /\ mu' = [mu EXCEPT ![Top(t).m].held = TRUE]
    /\ SetTop(t, [Top(t) EXCEPT !.pc = "Locked"])
    /\ UNCHANGED <<handlers, handlersStack, status, nops, env, hist, w>>

\* append, first half: load the slice
HandleRead(t) ==
    /\ Running(t, "Handle", "Locked")
    /\ SetTop(t, [Top(t) EXCEPT !.pc = "Write", !.s = handlersStack[Top(t).m]])
    /\ UNCHANGED <<handlers, handlersStack, mu, status, nops, env, hist, w>>

\* Handle replacing the entry of a sentinel that is registered already
HandleWriteReplace(t) ==
    /\ Running(t, "Handle", "Write")
    /\ LET st == Top(t).s
           J == {j \in 2..Len(st) : st[j].err = Top(t).err}
       IN  handlersStack' = [handlersStack EXCEPT ![Top(t).m] =
               IF J = {}
               THEN Append(st, handlerStruct(Top(t).err, Top(t).h))
               ELSE [j \in 1..Len(st) |->
                        IF j \in J THEN handlerStruct(Top(t).err, Top(t).h) ELSE st[j]]]
    /\ SetTop(t, [Top(t) EXCEPT !.pc = "Return", !.s = <<>>])
    /\ UNCHANGED <<handlers, mu, status, nops, env, hist, w>>

\* append, second half: store the grown slice
HandleWrite(t) ==
    /\ Running(t, "Handle", "Write")
    /\ handlersStack' = [handlersStack EXCEPT ![Top(t).m] =
                            Append(Top(t).s, handlerStruct(Top(t).err, Top(t).h))]
    /\ SetTop(t, [Top(t) EXCEPT !.pc = "Return", !.s = <<>>])
    /\ UNCHANGED <<handlers, mu, status, nops, env, hist, w>>

\* deferred m.mu.Unlock() and return, of Handle and of UnknownHandler
Unlock(t) ==
    /\ status[t] = "run" /\ frames[t] # <<>>
    /\ Top(t).fn \in {"Handle", "UnknownHandler"}
    /\ Top(t).pc = "Return"
    /\ DoUnlock(Top(t).m)
    /\ Pop(t)
    /\ hist' = [hist EXCEPT ![Top(t).m] =
                  IF Top(t).fn = "Handle"
                  THEN [@ EXCEPT !.done = @ \cup {handlerStruct(Top(t).err, Top(t).h)}]
                  ELSE [@ EXCEPT !.unknown = Top(t).h]]
    /\ UNCHANGED <<handlers, handlersStack, status, nops, env, w>>

\* ------------------------------------------------------ Mux.UnknownHandler
\* UnknownHandler without its check of the handler
EnterUnknownHandlerNoCheck(t, m, handler) ==
    Push(t, Frame("UnknownHandler", "Lock", m, Nil, handler)) /\ UNCHANGED status

\* entry of UnknownHandler up to m.mu.Lock(): the nil check
EnterUnknownHandler(t, m, handler) ==
    IF handler = NilHandler
    THEN Push(t, Frame("UnknownHandler", "Panic", m, Nil, handler)) /\ Panic(t, PanicHandlerNil)
    ELSE Push(t, Frame("UnknownHandler", "Lock", m, Nil, handler)) /\ UNCHANGED status

CallUnknownHandler(t) ==
    /\ CanCall(t)
    /\ nops' = nops + 1
    /\ \E m \in env.muxes, handler \in {nops + 1, NilHandler} :
          EnterUnknownHandler(t, m, handler)
    /\ UNCHANGED <<handlers, handlersStack, mu, env, hist, w>>

\* the unknown handler appended as an entry with a nil sentinel
UnknownHandlerStoreAppend(t) ==
    /\ Running(t, "UnknownHandler", "Locked")
    /\ handlersStack' = [handlersStack EXCEPT ![Top(t).m] =
                            Append(@, handlerStruct(Nil, Top(t).h))]
    /\ SetTop(t, [Top(t) EXCEPT !.pc = "Return"])
    /\ UNCHANGED <<handlers, mu, status, nops, env, hist, w>>

UnknownHandlerStore(t) ==
    /\ Running(t, "UnknownHandler", "Locked")
    /\ handlersStack' = [handlersStack EXCEPT ![Top(t).m][1] =
                            handlerStruct(Nil, Top(t).h)]
    /\ SetTop(t, [Top(t) EXCEPT !.pc = "Return"])
    /\ UNCHANGED <<handlers, mu, status, nops, env, hist, w>>

\* --------------------------------------------------- Mux.GetUnknownHandler
CallGetUnknownHandler(t) ==
    /\ CanCall(t)
    /\ nops' = nops + 1
    /\ \E m \in env.muxes : Push(t, Frame("GetUnknownHandler", "RLock", m, Nil, NilHandler))
    /\ UNCHANGED <<handlers, handlersStack, mu, status, env, hist, w>>

\* mu.RLock() of GetUnknownHandler and of Error
RLock(t) ==
    /\ status[t] = "run" /\ frames[t] # <<>>
    /\ Top(t).fn \in {"GetUnknownHandler", "Error"}
    /\ Top(t).pc = "RLock"
    /\ CanRLock(Top(t).m, t)
    /\ mu' = [mu EXCEPT ![Top(t).m].readers = @ + 1]
    /\ SetTop(t, [Top(t) EXCEPT !.pc = "RLocked"])
    /\ UNCHANGED <<handlers, handlersStack, status, nops, env, hist, w>>

\* GetUnknownHandler returning the handler of the last entry
GetUnknownHandlerLoadLast(t) ==
    /\ Running(t, "GetUnknownHandler", "RLocked")
    /\ SetTop(t, [Top(t) EXCEPT !.pc = "Return",
                                !.h = handlersStack[Top(t).m][Len(handlersStack[Top(t).m])].handler])
    /\ UNCHANGED <<handlers, handlersStack, mu, status, nops, env, hist, w>>

\* return m.handlersStack[0].handler
GetUnknownHandlerLoad(t) ==
    /\ Running(t, "GetUnknownHandler", "RLocked")
    /\ SetTop(t, [Top(t) EXCEPT !.pc = "Return",
                                !.h = handlersStack[Top(t).m][1].handler])
    /\ UNCHANGED <<handlers, handlersStack, mu, status, nops, env, hist, w>>

\* deferred mu.RUnlock() and return, of GetUnknownHandler and of Error
RUnlock(t) ==
    /\ status[t] = "run" /\ frames[t] # <<>>
    /\ Top(t).fn \in {"GetUnknownHandler", "Error"}
    /\ Top(t).pc = "Return"
    /\ DoRUnlock(Top(t).m)
    /\ Pop(t)
    /\ UNCHANGED <<handlers, handlersStack, status, nops, env, hist, w>>
\* ------------------------------------------------------------- Mux.Handler
\* a request arrives at the handler returned by m.Handler(next)
CallServeHTTP(t) ==
    /\ CanCall(t)
    /\ nops' = nops + 1
    /\ \E m \in env.muxes : Push(t, Frame("Handler", "Serve", m, Nil, NilHandler))
    /\ UNCHANGED <<handlers, handlersStack, mu, status, env, hist, w>>

NextFrame(ctx, n) ==
    [Frame("next", "Body", NoMux, Nil, NilHandler) EXCEPT !.ctx = ctx, !.n = n]

Nesting(t) == Cardinality({k \in 1..Len(frames[t]) : frames[t][k].fn = "Handler"})

ReplaceTop(t, f) == SubSeq(frames[t], 1, Len(frames[t]) - 1) \o <<f>>

\* the wrapper binding m in the request of its caller instead of a copy
HandlerServeHTTPInPlace(t) ==
    /\ Running(t, "Handler", "Serve")
    /\ LET f == Top(t)
           r == WithValue(f.ctx, keyContext, f.m)
       IN  \/ frames' = [frames EXCEPT ![t] =
                   Append(ReplaceTop(t, [f EXCEPT !.pc = "Return", !.ctx = r]),
                          NextFrame(r, Len(handlersStack[f.m])))]
           \/ /\ Nesting(t) < MaxNest
              /\ \E m2 \in env.muxes :
                   frames' = [frames EXCEPT ![t] =
                       Append(ReplaceTop(t, [f EXCEPT !.pc = "Return", !.ctx = r]),
                              [Frame("Handler", "Serve", m2, Nil, NilHandler)
                                   EXCEPT !.ctx = r])]
    /\ UNCHANGED <<handlers, handlersStack, mu, status, nops, env, hist, w>>

\* r = r.WithContext(context.WithValue(r.Context(), keyContext{}, m));
\* next.ServeHTTP(w, r), where next is the final handler or the wrapper of a
\* Mux again
HandlerServeHTTP(t) ==
    /\ Running(t, "Handler", "Serve")
    /\ LET f == Top(t)
           r == WithValue(f.ctx, keyContext, f.m)
       IN  \/ frames' = [frames EXCEPT ![t] =
                   Append(ReplaceTop(t, [f EXCEPT !.pc = "Return"]),
                          NextFrame(r, Len(handlersStack[f.m])))]
           \/ /\ Nesting(t) < MaxNest
              /\ \E m2 \in env.muxes :
                   frames' = [frames EXCEPT ![t] =
                       Append(ReplaceTop(t, [f EXCEPT !.pc = "Return"]),
                              [Frame("Handler", "Serve", m2, Nil, NilHandler)
                                   EXCEPT !.ctx = r])]
    /\ UNCHANGED <<handlers, handlersStack, mu, status, nops, env, hist, w>>

HandlerReturn(t) ==
    /\ Running(t, "Handler", "Return")
    /\ Leave(t)
    /\ UNCHANGED <<handlers, handlersStack, mu, status, nops, env, hist>>

\* a request arrives at next directly: no wrapper was applied upstream
CallNext(t) ==
    /\ CanCall(t)
    /\ nops' = nops + 1
    /\ Push(t, NextFrame(<<>>, 0))
    /\ UNCHANGED <<handlers, handlersStack, mu, status, env, hist, w>>

\* ------------------------------------------------------------------- Error
\* Error falling back to DefaultUnknownHandler when no Mux is bound
EnterErrorFallback(t, below, ctx, err) ==
    LET mux == getMux(ctx)
    IN  /\ frames' = [frames EXCEPT ![t] =
               IF mux = NoMux
               THEN Append(below, Frame("ErrorHandlerFunc", "Body", mux, err,
                                        DefaultUnknownHandler))
               ELSE Append(below, [Frame("Error", "RLock", mux, err, NilHandler)
                                       EXCEPT !.ctx = ctx,
                                              !.seen = hist[mux].done,
                                              !.n = below[Len(below)].n])]
        /\ UNCHANGED status

\* entry of Error up to mux.mu.RLock(): getMux and the nil check of the Mux.
\* below are the caller's frames, already updated.
EnterError(t, below, ctx, err) ==
    LET mux == getMux(ctx)
    IN  IF mux = NoMux
        THEN /\ frames' = [frames EXCEPT ![t] =
                    Append(below, [Frame("Error", "Panic", mux, err, NilHandler)
                                       EXCEPT !.ctx = ctx])]
             /\ Panic(t, PanicNoMux)
        ELSE /\ frames' = [frames EXCEPT ![t] =
                    Append(below, [Frame("Error", "RLock", mux, err, NilHandler)
                                       EXCEPT !.ctx = ctx,
                                              !.seen = hist[mux].done,
                                              !.n = below[Len(below)].n])]
             /\ UNCHANGED status

\* the downstream handler calls Error(w, r, err)
NextCallsError(t) ==
    /\ Running(t, "next", "Body")
    /\ \E err \in ErrorValues \cup {Nil} :
          EnterError(t, ReplaceTop(t, [Top(t) EXCEPT !.pc = "Done"]), Top(t).ctx, err)
    /\ UNCHANGED <<handlers, handlersStack, mu, nops, env, hist, w>>

\* the downstream handler returns, having called Error or not
NextReturn(t) ==
    /\ status[t] = "run" /\ frames[t] # <<>>
    /\ Top(t).fn = "next"
    /\ Leave(t)
    /\ UNCHANGED <<handlers, handlersStack, mu, status, nops, env, hist>>

\* the slice as it was when the request was bound (the context holding the
\* slice value instead of the *Mux)
RegistryAtBind(f) == SubSeq(handlersStack[f.m], 1, f.n)

\* mux.handlersStack, as the frame f of Error reads it
Registry(f) == handlersStack[f.m]

\* e.handler(w, r, err), called from the frame f of Error
Invoke(t, f, e, err) ==
    IF e.handler = NilHandler
    THEN frames' = [frames EXCEPT ![t] = ReplaceTop(t, f)] /\ Panic(t, PanicNilFunc)
    ELSE /\ frames' = [frames EXCEPT ![t] =
                Append(ReplaceTop(t, [f EXCEPT !.pc = "Return",
                                               !.inv = Append(@, [h |-> e.handler, err |-> err])]),
                       Frame("ErrorHandlerFunc", "Body", f.m, err, e.handler))]
         /\ UNCHANGED status

\* the nil case calling the newest entry instead of slot 0
ErrorNilCheckNewest(t) ==
    /\ Running(t, "Error", "RLocked")
    /\ LET f == Top(t)
       IN  IF f.err = Nil
           THEN Invoke(t, f, Registry(f)[Len(Registry(f))], f.err)
           ELSE /\ SetTop(t, [f EXCEPT !.pc = "Loop", !.i = Len(Registry(f)) - 1])
                /\ UNCHANGED status
    /\ UNCHANGED <<handlers, handlersStack, mu, nops, env, hist, w>>

\* if err == nil { mux.handlersStack[0].handler(w, r, err); return };
\* otherwise i := len(mux.handlersStack) - 1
ErrorNilCheck(t) ==
    /\ Running(t, "Error", "RLocked")
    /\ LET f == Top(t)
       IN  IF f.err = Nil
           THEN Invoke(t, f, Registry(f)[1], f.err)
           ELSE /\ SetTop(t, [f EXCEPT !.pc = "Loop", !.i = Len(Registry(f)) - 1])
                /\ UNCHANGED status
    /\ UNCHANGED <<handlers, handlersStack, mu, nops, env, hist, w>>

\* the loop scanning from the oldest entry to the newest
ErrorLoopOldestFirst(t) ==
    /\ Running(t, "Error", "Loop")
    /\ Top(t).i >= 1
    /\ LET f == Top(t)
           h == Registry(f)[Len(Registry(f)) - f.i + 1]
       IN  IF Is(f.err, h.err)
           THEN Invoke(t, f, h, f.err)
           ELSE SetTop(t, [f EXCEPT !.i = f.i - 1]) /\ UNCHANGED status
    /\ UNCHANGED <<handlers, handlersStack, mu, nops, env, hist, w>>

\* the loop without its return: it goes on after the handler it called
ErrorLoopNoReturn(t) ==
    /\ Running(t, "Error", "Loop")
    /\ Top(t).i >= 1
    /\ LET f == Top(t)
           h == Registry(f)[f.i + 1]
       IN  IF Is(f.err, h.err)
           THEN frames' = [frames EXCEPT ![t] =
                   Append(ReplaceTop(t, [f EXCEPT !.i = f.i - 1,
                                                  !.inv = Append(@, [h |-> h.handler, err |-> f.err])]),
                          Frame("ErrorHandlerFunc", "Body", f.m, f.err, h.handler))]
           ELSE SetTop(t, [f EXCEPT !.i = f.i - 1])
    /\ UNCHANGED <<handlers, handlersStack, mu, status, nops, env, hist, w>>

\* the loop preferring the entry whose sentinel is nearest to the head of
\* the wrap-chain (the longer sentinel) over a newer entry
ErrorLoopNearest(t) ==
    /\ Running(t, "Error", "Loop")
    /\ Top(t).i >= 1
    /\ LET f == Top(t)
           h == Registry(f)[f.i + 1]
           nearer == \E j \in 2..f.i :
                        /\ Is(f.err, Registry(f)[j].err)
                        /\ Len(Registry(f)[j].err) > Len(h.err)
       IN  IF Is(f.err, h.err) /\ ~nearer
           THEN Invoke(t, f, h, f.err)
           ELSE SetTop(t, [f EXCEPT !.i = f.i - 1]) /\ UNCHANGED status
    /\ UNCHANGED <<handlers, handlersStack, mu, nops, env, hist, w>>

\* the loop passing the sentinel it matched to the handler
ErrorLoopPassesSentinel(t) ==
    /\ Running(t, "Error", "Loop")
    /\ Top(t).i >= 1
    /\ LET f == Top(t)
           h == Registry(f)[f.i + 1]
       IN  IF Is(f.err, h.err)
           THEN Invoke(t, f, h, h.err)
           ELSE SetTop(t, [f EXCEPT !.i = f.i - 1]) /\ UNCHANGED status
    /\ UNCHANGED <<handlers, handlersStack, mu, nops, env, hist, w>>

\* one iteration of the loop: i >= 1; h := mux.handlersStack[i];
\* if errors.Is(err, h.err) { h.handler(w, r, err); return }; i--
ErrorLoop(t) ==
    /\ Running(t, "Error", "Loop")
    /\ Top(t).i >= 1
    /\ LET f == Top(t)
           h == Registry(f)[f.i + 1]
       IN  IF Is(f.err, h.err)
           THEN Invoke(t, f, h, f.err)
           ELSE SetTop(t, [f EXCEPT !.i = f.i - 1]) /\ UNCHANGED status
    /\ UNCHANGED <<handlers, handlersStack, mu, nops, env, hist, w>>

\* the loop ended without a match: mux.handlersStack[0].handler(w, r, err)
ErrorUnknown(t) ==
    /\ Running(t, "Error", "Loop")
    /\ Top(t).i < 1
    /\ Invoke(t, Top(t), Registry(Top(t))[1], Top(t).err)
    /\ UNCHANGED <<handlers, handlersStack, mu, nops, env, hist, w>>

\* ------------------------------------------------------- the error handlers
\* strconv.Itoa, for n >= 0
Digit(d) ==
    CASE d = 0 -> "0" [] d = 1 -> "1" [] d = 2 -> "2" [] d = 3 -> "3" [] d = 4 -> "4"
      [] d = 5 -> "5" [] d = 6 -> "6" [] d = 7 -> "7" [] d = 8 -> "8" [] d = 9 -> "9"

RECURSIVE Itoa(_)
Itoa(n) == IF n < 10 THEN Digit(n) ELSE Itoa(n \div 10) \o Digit(n % 10)

\* the calls on an http.ResponseWriter
HeaderSet(key, val) == [op |-> "Header.Set", key |-> key, val |-> val, code |-> 0]
WriteHeader(code)   == [op |-> "WriteHeader", key |-> "", val |-> "", code |-> code]
Write(body)         == [op |-> "Write", key |-> "", val |-> body, code |-> 0]

StatusInternalServerError == 500

response == "<h1>Internal Server Error</h1>"

\* DefaultUnknownHandler writing the status before it sets the headers
DefaultUnknownHandlerBodyStatusFirst(t) ==
    /\ Running(t, "ErrorHandlerFunc", "Body")
    /\ Top(t).h = DefaultUnknownHandler
    /\ w' = [w EXCEPT ![t] = @ \o
               << WriteHeader(StatusInternalServerError),
                  HeaderSet("Content-Type", "text/html"),
                  HeaderSet("Content-Length", Itoa(Len(response))),
                  Write(response) >>]
    /\ Pop(t)
    /\ UNCHANGED <<handlers, handlersStack, mu, status, nops, env, hist>>

\* DefaultUnknownHandler: the two headers, the status, the body; return
DefaultUnknownHandlerBody(t) ==
    /\ Running(t, "ErrorHandlerFunc", "Body")
    /\ Top(t).h = DefaultUnknownHandler
    /\ w' = [w EXCEPT ![t] = @ \o
               << HeaderSet("Content-Type", "text/html"),
                  HeaderSet("Content-Length", Itoa(Len(response))),
                  WriteHeader(StatusInternalServerError),
                  Write(response) >>]
    /\ Pop(t)
    /\ UNCHANGED <<handlers, handlersStack, mu, status, nops, env, hist>>

\* a handler of the caller returns
ErrorHandlerFuncReturn(t) ==
    /\ status[t] = "run" /\ frames[t] # <<>>
    /\ Top(t).fn = "ErrorHandlerFunc"
    /\ Top(t).h # DefaultUnknownHandler
    /\ Pop(t)
    /\ UNCHANGED <<handlers, handlersStack, mu, status, nops, env, hist, w>>

\* a handler of the caller registers on the Mux it was called from (with a
\* nil sentinel Handle panics, as in EnterHandle)
ErrorHandlerFuncCallsHandle(t) ==
    /\ Running(t, "ErrorHandlerFunc", "Body")
    /\ Top(t).h # DefaultUnknownHandler
    /\ \E err \in Sentinels \cup {Nil} :
          /\ frames' = [frames EXCEPT ![t] =
                Append(ReplaceTop(t, [Top(t) EXCEPT !.pc = "Called"]),
                       Frame("Handle", IF err = Nil THEN "Panic" ELSE "Lock",
                             Top(t).m, err, Top(t).h))]
          /\ status' = IF err = Nil THEN [status EXCEPT ![t] = PanicErrNil] ELSE status
    /\ UNCHANGED <<handlers, handlersStack, mu, nops, env, hist, w>>

ErrorHandlerFuncCallsUnknownHandler(t) ==
    /\ Running(t, "ErrorHandlerFunc", "Body")
    /\ Top(t).h # DefaultUnknownHandler
    /\ frames' = [frames EXCEPT ![t] =
          Append(ReplaceTop(t, [Top(t) EXCEPT !.pc = "Called"]),
                 Frame("UnknownHandler", "Lock", Top(t).m, Nil, Top(t).h))]
    /\ UNCHANGED <<handlers, handlersStack, mu, status, nops, env, hist, w>>

\* a handler of the caller panics
ErrorHandlerFuncPanics(t) ==
    /\ Running(t, "ErrorHandlerFunc", "Body")
    /\ Top(t).h # DefaultUnknownHandler
    /\ SetTop(t, [Top(t) EXCEPT !.pc = "Panic"])
    /\ Panic(t, PanicInHandler)
    /\ UNCHANGED <<handlers, handlersStack, mu, nops, env, hist, w>>

ErrorDepth(t) == Cardinality({k \in 1..Len(frames[t]) : frames[t][k].fn = "Error"})

\* a handler of the caller calls Error(w, r, err) with the request it was
\* given (the request of the Error call below it) and with the error it was
\* given or the cause of that error
ErrorHandlerFuncCallsError(t) ==
    /\ Running(t, "ErrorHandlerFunc", "Body")
    /\ Top(t).h # DefaultUnknownHandler
    /\ ErrorDepth(t) < MaxErrorNest
    /\ LET r == frames[t][Len(frames[t]) - 1]
       IN  \E err \in {Top(t).err} \cup (IF Top(t).err = Nil THEN {} ELSE {Unwrap(Top(t).err)}) :
              EnterError(t, ReplaceTop(t, [Top(t) EXCEPT !.pc = "Called",
                                                        !.ctx = r.ctx, !.n = r.n]),
                         r.ctx, err)
    /\ UNCHANGED <<handlers, handlersStack, mu, nops, env, hist, w>>

\* ------------------------------------------------------------------ panics
HoldsLock(f)  == f.fn \in {"Handle", "UnknownHandler"} /\ f.pc \in {"Locked", "Write", "Return"}
HoldsRLock(f) == f.fn \in {"GetUnknownHandler", "Error"} /\ f.pc \in {"RLocked", "Loop", "Return"}

\* a panic leaving the top frame without running an unlock (the unlock
\* called at the end of the function instead of deferred)
UnwindNoDefer(t) ==
    /\ status[t] # "run"
    /\ frames[t] # <<>>
    /\ Leave(t)
    /\ UNCHANGED <<handlers, handlersStack, mu, status, nops, env, hist>>

\* a panic leaves the top frame, running its deferred unlock
Unwind(t) ==
    /\ status[t] # "run"
    /\ frames[t] # <<>>
    /\ IF HoldsLock(Top(t)) THEN DoUnlock(Top(t).m)
       ELSE IF HoldsRLock(Top(t)) THEN DoRUnlock(Top(t).m)
       ELSE UNCHANGED mu
    /\ Leave(t)
    /\ UNCHANGED <<handlers, handlersStack, status, nops, env, hist>>

\* the caller of the goroutine's outermost call recovers (net/http, the test)
Recover(t) ==
    /\ status[t] # "run"
    /\ frames[t] = <<>>
    /\ status' = [status EXCEPT ![t] = "run"]
    /\ UNCHANGED <<handlers, handlersStack, mu, frames, nops, env, hist, w>>

Next ==
    \E t \in Threads :
        \/ CallHandle(t)
        \/ Lock(t)
        \/ LockAcquire(t)
        \/ HandleRead(t)
        \/ HandleWrite(t)
        \/ Unlock(t)
        \/ CallUnknownHandler(t)
        \/ UnknownHandlerStore(t)
        \/ CallGetUnknownHandler(t)
        \/ RLock(t)
        \/ GetUnknownHandlerLoad(t)
        \/ RUnlock(t)
        \/ CallServeHTTP(t)
        \/ HandlerServeHTTP(t)
        \/ HandlerReturn(t)
        \/ CallNext(t)
        \/ NextCallsError(t)
        \/ NextReturn(t)
        \/ ErrorNilCheck(t)
        \/ ErrorLoop(t)
        \/ ErrorUnknown(t)
        \/ DefaultUnknownHandlerBody(t)
        \/ ErrorHandlerFuncReturn(t)
        \/ ErrorHandlerFuncCallsHandle(t)
        \/ ErrorHandlerFuncCallsUnknownHandler(t)
        \/ Unwind(t)
        \/ Recover(t)

Spec == Init /\ [][Next]_vars

SpecConc == InitConc /\ [][Next]_vars

SpecTwo == InitTwo /\ [][Next]_vars

\* ---------------------------------------------------------------- liveness
\* The handlers return without calling back into the Mux: the steps of Next
\* but ErrorHandlerFuncCallsHandle and ErrorHandlerFuncCallsUnknownHandler.
NextLive ==
    \E t \in Threads :
        \/ CallHandle(t)
        \/ Lock(t)
        \/ LockAcquire(t)
        \/ HandleRead(t)
        \/ HandleWrite(t)
        \/ Unlock(t)
        \/ CallUnknownHandler(t)
        \/ UnknownHandlerStore(t)
        \/ CallGetUnknownHandler(t)
        \/ RLock(t)
        \/ GetUnknownHandlerLoad(t)
        \/ RUnlock(t)
        \/ CallServeHTTP(t)
        \/ HandlerServeHTTP(t)
        \/ HandlerReturn(t)
        \/ CallNext(t)
        \/ NextCallsError(t)
        \/ NextReturn(t)
        \/ ErrorNilCheck(t)
        \/ ErrorLoop(t)
        \/ ErrorUnknown(t)
        \/ DefaultUnknownHandlerBody(t)
        \/ ErrorHandlerFuncReturn(t)
        \/ Unwind(t)
        \/ Recover(t)

\* a step of goroutine t inside a call it has made
Progress(t) ==
    \/ Lock(t) \/ LockAcquire(t) \/ HandleRead(t) \/ HandleWrite(t) \/ Unlock(t)
    \/ UnknownHandlerStore(t)
    \/ RLock(t) \/ GetUnknownHandlerLoad(t) \/ RUnlock(t)
    \/ HandlerServeHTTP(t) \/ HandlerReturn(t)
    \/ NextCallsError(t) \/ NextReturn(t)
    \/ ErrorNilCheck(t) \/ ErrorLoop(t) \/ ErrorUnknown(t)
    \/ DefaultUnknownHandlerBody(t) \/ ErrorHandlerFuncReturn(t)
    \/ Unwind(t) \/ Recover(t)

\* The scheduler runs every goroutine that can take a step, and the RWMutex
\* starves neither a writer (a pending Lock holds back new readers, and the
\* writers' mutex hands over to the longest waiter) nor a reader (Unlock
\* wakes the readers that wait).
Fairness ==
    \A t \in Threads :
        /\ WF_vars(Progress(t))
        /\ SF_vars(Lock(t))
        /\ SF_vars(RLock(t))

SpecLive == InitLive /\ [][NextLive]_vars /\ Fairness

\* ---------------------------------------------------- handlers that misbehave
\* Registrations and requests, with handlers that return, panic or call
\* Error again.
NextHandlers ==
    \E t \in Threads :
        \/ CallHandle(t)
        \/ Lock(t)
        \/ LockAcquire(t)
        \/ HandleRead(t)
        \/ HandleWrite(t)
        \/ Unlock(t)
        \/ CallUnknownHandler(t)
        \/ UnknownHandlerStore(t)
        \/ RLock(t)
        \/ RUnlock(t)
        \/ CallServeHTTP(t)
        \/ HandlerServeHTTP(t)
        \/ HandlerReturn(t)
        \/ NextCallsError(t)
        \/ NextReturn(t)
        \/ ErrorNilCheck(t)
        \/ ErrorLoop(t)
        \/ ErrorUnknown(t)
        \/ DefaultUnknownHandlerBody(t)
        \/ ErrorHandlerFuncReturn(t)
        \/ ErrorHandlerFuncPanics(t)
        \/ ErrorHandlerFuncCallsError(t)
        \/ Unwind(t)
        \/ Recover(t)

SpecHandlers == InitHandlers /\ [][NextHandlers]_vars

\* ------------------------------------------------- the map-based revisions
\* The two revisions of the package that kept the handlers in a map
\* (src/centra.go): 1 is the earlier one, 2 the later one.  env.rev says
\* which one runs.  They have no lock; their callers call one at a time.
Revisions == {1, 2}

keyHandlers == "keyHandlers"

\* the handlers of a Mux that NewMux did not make (var m Mux): a nil map
NilMap == -1

\* r.Context().Value(keyHandlers) is the nil interface when nothing is bound
NoValue == 0

InitMap ==
    /\ Start
    /\ env \in {[serial |-> TRUE, ops |-> MaxMapOps, muxes |-> {1}, rev |-> v] :
                    v \in Revisions}

PanicDuplicate == "centra: cannot register more than one handler for the same error"
PanicTypeAssertion == "interface conversion: interface {} is nil, not map[error]func(...)"

\* m.handlers[err] = handler
MapStore(h, err, handler) ==
    [k \in DOMAIN h \cup {err} |-> IF k = err THEN handler ELSE h[k]]

\* Mux.Handle: revision 1 refuses a second handler for an error
MapHandle(t) ==
    /\ CanCall(t)
    /\ nops' = nops + 1
    /\ \E m \in env.muxes, err \in Sentinels \cup {Nil}, handler \in {nops + 1, NilHandler} :
          LET v == IF err = Nil THEN PanicErrNil
                   ELSE IF handler = NilHandler THEN PanicHandlerNil
                   ELSE IF env.rev = 1 /\ err \in DOMAIN handlers[m] THEN PanicDuplicate
                   ELSE "run"
          IN  IF v = "run"
              THEN /\ handlers' = [handlers EXCEPT ![m] = MapStore(@, err, handler)]
                   /\ UNCHANGED <<frames, status>>
              ELSE /\ Push(t, Frame("Handle", "Panic", m, err, handler))
                   /\ Panic(t, v)
                   /\ UNCHANGED handlers
    /\ UNCHANGED <<handlersStack, mu, env, hist, w>>

\* Mux.HandleUnknown (revision 1), Mux.UnknownHandler (revision 2)
MapUnknownHandler(t) ==
    /\ CanCall(t)
    /\ nops' = nops + 1
    /\ \E m \in env.muxes, handler \in {nops + 1, NilHandler} :
          IF handler = NilHandler
          THEN /\ Push(t, Frame("UnknownHandler", "Panic", m, Nil, handler))
               /\ Panic(t, PanicHandlerNil)
               /\ UNCHANGED handlers
          ELSE /\ handlers' = [handlers EXCEPT ![m] = MapStore(@, Nil, handler)]
               /\ UNCHANGED <<frames, status>>
    /\ UNCHANGED <<handlersStack, mu, env, hist, w>>

\* a request arrives at the handler made by m.Build()(next):
\* r = r.WithContext(context.WithValue(r.Context(), keyHandlers, m.handlers));
\* next.ServeHTTP(w, r).  The value bound is the map itself, or the nil map.
BuildServeHTTP(t) ==
    /\ CanCall(t)
    /\ nops' = nops + 1
    /\ \E m \in env.muxes \cup {NilMap} :
          frames' = [frames EXCEPT ![t] =
              << Frame("Build", "Return", m, Nil, NilHandler),
                 NextFrame(WithValue(<<>>, keyHandlers, m), 0) >>]
    /\ UNCHANGED <<handlersStack, mu, status, env, hist, w, handlers>>

BuildReturn(t) ==
    /\ Running(t, "Build", "Return")
    /\ Leave(t)
    /\ UNCHANGED <<handlersStack, mu, status, nops, env, hist, handlers>>

\* getHandlers: the value bound to keyHandlers, asserted to be a map.  The
\* assertion has one result, so it panics on the nil interface (NoValue).
getHandlers(ctx) == Value(ctx, keyHandlers)

\* Error of the map-based revisions, called by the downstream handler.
\* The range over the map visits the keys in an order that is not fixed:
\* any key that errors.Is accepts may be the one whose handler is called.
NextCallsErrorMap(t) ==
    /\ Running(t, "next", "Body")
    /\ \E err \in ErrorValues \cup {Nil} :
          LET hs == getHandlers(Top(t).ctx)
              below == ReplaceTop(t, [Top(t) EXCEPT !.pc = "Done"])
              E(pc, inv) == [Frame("ErrorMap", pc, hs, err, NilHandler)
                                EXCEPT !.ctx = Top(t).ctx, !.inv = inv]
              Call(h) == frames' = [frames EXCEPT ![t] =
                            below \o << E("Return", <<[h |-> h, err |-> err]>>),
                                        Frame("ErrorHandlerFunc", "Body", hs, err, h) >>]
          IN  IF hs = NoValue
              THEN /\ frames' = [frames EXCEPT ![t] = Append(below, E("Panic", <<>>))]
                   /\ Panic(t, PanicTypeAssertion)
              ELSE /\ UNCHANGED status
                   /\ IF hs = NilMap THEN Call(DefaultUnknownHandler)
                      ELSE IF err = Nil THEN Call(handlers[hs][Nil])
                      ELSE LET M == {k \in DOMAIN handlers[hs] : Is(err, k)}
                           IN  IF M # {} THEN \E k \in M : Call(handlers[hs][k])
                               ELSE IF env.rev = 1
                               THEN frames' = [frames EXCEPT ![t] =
                                                  Append(below, E("Return", <<>>))]
                               ELSE Call(handlers[hs][Nil])
    /\ UNCHANGED <<handlersStack, mu, nops, env, hist, w, handlers>>

\* Error of the map-based revisions returns
ErrorMapReturn(t) ==
    /\ Running(t, "ErrorMap", "Return")
    /\ Pop(t)
    /\ UNCHANGED <<handlersStack, mu, status, nops, env, hist, w, handlers>>

NextMap ==
    \E t \in Threads :
        \/ MapHandle(t)
        \/ MapUnknownHandler(t)
        \/ BuildServeHTTP(t)
        \/ BuildReturn(t)
        \/ CallNext(t)
        \/ NextCallsErrorMap(t)
        \/ NextReturn(t)
        \/ ErrorMapReturn(t)
        \/ DefaultUnknownHandlerBody(t)
        \/ ErrorHandlerFuncReturn(t)
        \/ Unwind(t)
        \/ Recover(t)

SpecMap == InitMap /\ [][NextMap]_vars

\* ============================================================== properties
\* the frames of Error of all goroutines, as <<goroutine, position>>
ErrorFrames ==
    UNION {{<<t, k>> : k \in {k \in 1..Len(frames[t]) : frames[t][k].fn = "Error"}} :
              t \in Threads}

\* the frames of Error whose handler has been called
Dispatched == {p \in ErrorFrames : frames[p[1]][p[2]].pc = "Return"}

FrameAt(p) == frames[p[1]][p[2]]

\* sentinel S is reached from error E after k Unwrap hops
Reaches(E, S, k) == k < Len(E) /\ SubSeq(E, k + 1, Len(E)) = S

InChain(E, S) == \E k \in 0..MaxWrap : Reaches(E, S, k)

\* the indices (from 2: slot 0 is index 1) of the entries of st whose
\* sentinel is in the wrap-chain of E
Matching(st, E) == {j \in 2..Len(st) : InChain(E, st[j].err)}

Newest(J) == CHOOSE j \in J : \A j2 \in J : j2 <= j

Called(f, entry) == f.inv = <<[h |-> entry.handler, err |-> f.err]>>

\* st holds entries for sentinels A, B, A, with three distinct handlers
RegisteredABA(st) ==
    /\ Len(st) = 4
    /\ st[2].err = st[4].err
    /\ st[3].err # st[2].err
    /\ Cardinality({st[2].handler, st[3].handler, st[4].handler}) = 3

\* C1: after Handle for sentinels A, B, A (three distinct handlers), Error
\* with an error equal to A calls the handler of the third registration and
\* not the handler of the first.
C1_LastRegisteredWins ==
    \A p \in Dispatched :
        LET f == FrameAt(p)
            st == handlersStack[f.m]
        IN  (RegisteredABA(st) /\ f.err = st[2].err)
                => Called(f, st[4]) /\ ~Called(f, st[2])

C1_Witness ==
    \E p \in Dispatched :
        RegisteredABA(handlersStack[FrameAt(p).m])
            /\ FrameAt(p).err = handlersStack[FrameAt(p).m][2].err

\* C2 as stated: whenever the wrap-chain of the dispatched error reaches the
\* sentinel S of some entry, the handler called is one registered for S.
C2_Original ==
    \A p \in Dispatched :
        LET f == FrameAt(p)
            st == handlersStack[f.m]
        IN  \A j \in Matching(st, f.err) :
                \E j2 \in 2..Len(st) : st[j2].err = st[j].err /\ Called(f, st[j2])

\* no entry registered after entry j has another sentinel in the chain of E
NoLaterRival(st, E, j) ==
    \A j2 \in Matching(st, E) : j2 > j => st[j2].err = st[j].err

\* C2 (amended): for every k >= 0 and every error E whose wrap-chain reaches
\* sentinel S after k hops, Error calls the handler last registered for S,
\* provided no entry registered after it has another sentinel that is in
\* the wrap-chain of E as well.
C2_WrappedSentinelDispatch ==
    \A p \in Dispatched :
        LET f == FrameAt(p)
            st == handlersStack[f.m]
        IN  \A j \in Matching(st, f.err) :
                NoLaterRival(st, f.err, j)
                    => Called(f, st[Newest({j2 \in 2..Len(st) : st[j2].err = st[j].err})])

C2_Witness ==
    \E p \in Dispatched :
        LET f == FrameAt(p)
            st == handlersStack[f.m]
        IN  \E j \in 2..Len(st) :
                /\ Reaches(f.err, st[j].err, MaxWrap)
                /\ NoLaterRival(st, f.err, j)
                /\ Called(f, st[j])

\* C3: Error with a nil error calls the handler in slot 0 and no other,
\* whatever was registered before.
C3_NilCallsSlotZero ==
    \A p \in Dispatched :
        LET f == FrameAt(p)
        IN  f.err = Nil => Called(f, handlersStack[f.m][1])

C3_Witness ==
    \E p \in Dispatched :
        LET f == FrameAt(p)
            st == handlersStack[f.m]
        IN  /\ f.err = Nil
            /\ Len(st) >= 2
            /\ st[1].handler # DefaultUnknownHandler
            /\ Called(f, st[1])

\* C4: Error with a non-nil error whose wrap-chain holds the sentinel of no
\* entry calls the handler in slot 0, which is the handler of the last
\* UnknownHandler call, or DefaultUnknownHandler when there was none.
C4_UnmatchedCallsUnknown ==
    \A p \in Dispatched :
        LET f == FrameAt(p)
            st == handlersStack[f.m]
        IN  (f.err # Nil /\ Matching(st, f.err) = {})
                => /\ Called(f, st[1])
                   /\ st[1].handler = hist[f.m].unknown

C4_Witness ==
    \E p \in Dispatched :
        LET f == FrameAt(p)
            st == handlersStack[f.m]
        IN  /\ f.err # Nil
            /\ Matching(st, f.err) = {}
            /\ Len(st) >= 2
            /\ hist[f.m].unknown # DefaultUnknownHandler
            /\ Called(f, st[1])

\* C5: every call of Error on a bound request calls exactly one handler,
\* once: none before the call is dispatched, and then one handler of the
\* registry, never a second.
C5_ExactlyOneHandler ==
    \A p \in ErrorFrames :
        LET f == FrameAt(p)
            st == handlersStack[f.m]
        IN  IF f.pc = "Return"
            THEN Len(f.inv) = 1 /\ \E j \in 1..Len(st) : Called(f, st[j])
            ELSE f.inv = <<>>

C5_Witness ==
    \E p \in Dispatched :
        LET f == FrameAt(p)
            st == handlersStack[f.m]
        IN  /\ Cardinality(Matching(st, f.err)) >= 2
            /\ Len(f.inv) = 1
            /\ p[2] = Len(frames[p[1]])
\* a frame of Handle or UnknownHandler that was passed a nil argument
NilArgument(f) ==
    \/ f.fn = "Handle" /\ (f.err = Nil \/ f.h = NilHandler)
    \/ f.fn = "UnknownHandler" /\ f.h = NilHandler

\* C6: Handle with a nil sentinel or a nil handler, and UnknownHandler with
\* a nil handler, panic at once: the call goes no further than its check,
\* no entry is appended, slot 0 is unchanged, the lock is untouched and no
\* handler is called.
C6_NilArgumentsPanic ==
    [][\A t \in Threads :
          /\ \A k \in 1..Len(frames'[t]) :
                NilArgument(frames'[t][k])
                    => /\ frames'[t][k].pc = "Panic"
                       /\ k = Len(frames'[t])
                       /\ status'[t] \in {PanicErrNil, PanicHandlerNil}
          /\ (status[t] = "run" /\ status'[t] \in {PanicErrNil, PanicHandlerNil})
                => /\ handlersStack' = handlersStack
                   /\ mu' = mu
                   /\ hist' = hist
                   /\ Len(frames'[t]) = Len(frames[t]) + 1
                   /\ NilArgument(frames'[t][Len(frames'[t])])
      ]_vars

C6_Witness ==
    \E t \in Threads :
        /\ status[t] = PanicHandlerNil
        /\ frames[t] # <<>>
        /\ Top(t).fn = "UnknownHandler"
        /\ \E m \in Muxes : Len(handlersStack[m]) > 1

\* C7: Error on a request to which no Mux was bound panics, whatever the
\* error: it takes no lock and calls no handler, DefaultUnknownHandler
\* included.
C7_UnboundRequestPanics ==
    [][\A t \in Threads :
          (/\ status[t] = "run"
           /\ frames[t] # <<>>
           /\ Top(t).fn = "next"
           /\ getMux(Top(t).ctx) = NoMux
           /\ Len(frames'[t]) > Len(frames[t]))
              => /\ status'[t] = PanicNoMux
                 /\ mu' = mu
                 /\ handlersStack' = handlersStack
                 /\ Len(frames'[t]) = Len(frames[t]) + 1
                 /\ frames'[t][Len(frames'[t])].fn = "Error"
                 /\ frames'[t][Len(frames'[t])].pc = "Panic"
                 /\ frames'[t][Len(frames'[t])].inv = <<>>
      ]_vars

C7_Witness ==
    \E t \in Threads :
        /\ status[t] = PanicNoMux
        /\ frames[t] # <<>>
        /\ Top(t).fn = "Error"
        /\ Top(t).err = Nil
        /\ Top(t).inv = <<>>
        /\ \A m \in Muxes : mu[m].readers = 0

Entries(st) == {st[j] : j \in 2..Len(st)}

InFlight(m) ==
    \E t \in Threads : \E k \in 1..Len(frames[t]) :
        frames[t][k].fn = "Handle" /\ frames[t][k].m = m

\* C8: with Handle and Error calls running concurrently no entry is lost or
\* duplicated (every Handle call that returned has exactly one entry, and
\* with no Handle call in progress the registry holds one entry per call
\* beyond slot 0), and an Error call sees, during its scan, the entry of
\* every Handle call that had returned when it was called.
C8_NoLostEntries ==
    /\ \A m \in Muxes :
          LET st == handlersStack[m]
          IN  /\ \A e \in hist[m].done :
                    Cardinality({j \in 2..Len(st) : st[j] = e}) = 1
              /\ ~InFlight(m) => Len(st) - 1 = Cardinality(hist[m].done)
    /\ \A p \in ErrorFrames :
          LET f == FrameAt(p)
              st == handlersStack[f.m]
          IN  f.pc \in {"RLocked", "Loop", "Return"}
                  => /\ f.seen \subseteq Entries(st)
                     /\ f.pc = "Loop"
                           => \A j \in 2..Len(st) :
                                 j > f.i + 1 => ~InChain(f.err, st[j].err)
                     /\ (f.pc = "Return" /\ f.err # Nil)
                           => \A j \in 2..Len(st) :
                                 (st[j] \in f.seen /\ InChain(f.err, st[j].err))
                                     => \E j2 \in j..Len(st) : Called(f, st[j2])

C8_Witness ==
    \E p \in Dispatched :
        LET f == FrameAt(p)
            st == handlersStack[f.m]
        IN  /\ \E j \in 2..Len(st) : st[j] \in f.seen /\ Called(f, st[j])
            /\ \E u \in Threads :
                  /\ u # p[1]
                  /\ frames[u] # <<>>
                  /\ Top(u).fn = "Handle"
                  /\ Top(u).pc = "LockWait"

\* the entry Error is to call for error E on registry st
Expected(st, E) ==
    IF E = Nil \/ Matching(st, E) = {} THEN st[1] ELSE st[Newest(Matching(st, E))]

\* the Handler wrappers around position k of goroutine t
Wrappers(t, k) == {j \in 1..(k - 1) : frames[t][j].fn = "Handler"}

\* C9: an Error call made downstream of m.Handler(next) dispatches against
\* m itself: it is bound to the Mux of the wrapper next to it, and the
\* handler it calls is chosen from what that Mux holds when Error runs,
\* entries registered after the request was bound included.
C9_DispatchOnBoundMux ==
    \A p \in ErrorFrames :
        LET f == FrameAt(p)
            W == Wrappers(p[1], p[2])
        IN  IF W = {}
            THEN f.m = NoMux
            ELSE /\ f.m = frames[p[1]][Newest(W)].m
                 /\ f.pc = "Return" => Called(f, Expected(handlersStack[f.m], f.err))

C9_Witness ==
    \E p \in Dispatched :
        LET f == FrameAt(p)
            st == handlersStack[f.m]
        IN  /\ \E j \in 2..Len(st) : j > f.n /\ Called(f, st[j])
            /\ \E m \in Muxes : handlersStack[m] # st

\* goroutine t is in Handle or UnknownHandler, past the nil checks, called
\* by a handler that Error called on the same Mux
Reentered(t) ==
    /\ frames[t] # <<>>
    /\ Top(t).fn \in {"Handle", "UnknownHandler"}
    /\ ~NilArgument(Top(t))
    /\ \E k \in 1..(Len(frames[t]) - 2) :
          /\ frames[t][k].fn = "Error"
          /\ frames[t][k].m = Top(t).m
          /\ frames[t][k + 1].fn = "ErrorHandlerFunc"

\* C10: a handler called by Error that calls Handle or UnknownHandler on
\* the same Mux never returns: the call waits for the write lock while the
\* enclosing Error holds the read lock, and neither call ever completes.
C10_ReentrantWriterDeadlock ==
    [][\A t \in Threads :
          Reentered(t)
              => /\ Top(t).pc \in {"Lock", "LockWait"}
                 /\ mu[Top(t).m].readers >= 1
                 /\ status'[t] = "run"
                 /\ Len(frames'[t]) = Len(frames[t])
                 /\ SubSeq(frames'[t], 1, Len(frames[t]) - 1)
                        = SubSeq(frames[t], 1, Len(frames[t]) - 1)
                 /\ frames'[t][Len(frames[t])].pc \in {"Lock", "LockWait"}
      ]_vars

C10_Witness ==
    \E t \in Threads :
        /\ Reentered(t)
        /\ Top(t).pc = "LockWait"
        /\ mu[Top(t).m].writer = t
\* C11: in every reachable state, whatever calls were made and whether they
\* panicked or not, the entry sequence of every Mux is non-empty, slot 0
\* holds a nil sentinel and a non-nil handler, and every later entry holds a
\* non-nil sentinel and a non-nil handler.
C11_RegistryWellFormed ==
    \A m \in Muxes :
        LET st == handlersStack[m]
        IN  /\ Len(st) >= 1
            /\ st[1].err = Nil
            /\ st[1].handler # NilHandler
            /\ \A j \in 2..Len(st) : st[j].err # Nil /\ st[j].handler # NilHandler

C11_Witness ==
    \E t \in Threads : \E m \in Muxes :
        /\ status[t] = PanicErrNil
        /\ frames[t] # <<>>
        /\ Top(t).fn = "Handle"
        /\ Top(t).m = m
        /\ Len(handlersStack[m]) >= 3
        /\ handlersStack[m][1].handler # DefaultUnknownHandler
\* the frames of the handlers called by Error, as <<goroutine, position>>
\* (the frame below is the frame of the Error call)
HandlerFrames ==
    UNION {{<<t, k>> : k \in {k \in 2..Len(frames[t]) :
                                 /\ frames[t][k].fn = "ErrorHandlerFunc"
                                 /\ frames[t][k - 1].fn = "Error"}} :
              t \in Threads}

\* C12: the handler chosen by Error receives the error that was passed to
\* Error, unchanged, at every wrap depth: never the sentinel that matched
\* and never a cause unwrapped on the way.
C12_OriginalErrorPassed ==
    /\ \A p \in HandlerFrames :
          FrameAt(p).err = frames[p[1]][p[2] - 1].err
    /\ \A p \in Dispatched :
          \A j \in 1..Len(FrameAt(p).inv) : FrameAt(p).inv[j].err = FrameAt(p).err

C12_Witness ==
    \E p \in HandlerFrames :
        LET f == frames[p[1]][p[2] - 1]
            st == handlersStack[f.m]
        IN  /\ Len(f.err) = MaxWrap + 1
            /\ FrameAt(p).err = f.err
            /\ \E j \in 2..Len(st) :
                  /\ st[j].handler = FrameAt(p).h
                  /\ st[j].err # f.err
                  /\ Len(st[j].err) = 1
\* C13: on a Mux as NewMux made it, Error with any non-nil error makes these
\* calls on the response, in this order and once each: Content-Type is set
\* to text/html, Content-Length to the length of the body (30), status 500
\* is written, the body <h1>Internal Server Error</h1> is written; nothing
\* is written before the handler runs, and both headers are set before the
\* status is written.
C13_DefaultResponse ==
    \A p \in ErrorFrames :
        LET f == FrameAt(p)
            t == p[1]
        IN  (f.m # NoMux /\ handlersStack[f.m] = NewMux /\ f.err # Nil)
                => IF f.pc = "Return" /\ p[2] = Len(frames[t])
                   THEN /\ w[t] = << [op |-> "Header.Set", key |-> "Content-Type",
                                      val |-> "text/html", code |-> 0],
                                     [op |-> "Header.Set", key |-> "Content-Length",
                                      val |-> "30", code |-> 0],
                                     [op |-> "WriteHeader", key |-> "", val |-> "", code |-> 500],
                                     [op |-> "Write", key |-> "",
                                      val |-> "<h1>Internal Server Error</h1>", code |-> 0] >>
                        /\ \A j, k \in 1..Len(w[t]) :
                              (w[t][j].op = "Header.Set" /\ w[t][k].op = "WriteHeader") => j < k
                   ELSE w[t] = <<>>

C13_Witness ==
    \E p \in Dispatched :
        LET f == FrameAt(p)
        IN  /\ handlersStack[f.m] = NewMux
            /\ Len(f.err) = MaxWrap + 1
            /\ p[2] = Len(frames[p[1]])
            /\ Len(w[p[1]]) = 4
            /\ w[p[1]][3].code = StatusInternalServerError
\* the Error frames below which the wrappers of two different Muxes are nested
NestedTwo ==
    {p \in ErrorFrames :
        \E j1, j2 \in Wrappers(p[1], p[2]) : frames[p[1]][j1].m # frames[p[1]][j2].m}

\* C14: with the Handler wrappers of two different Muxes nested around the
\* downstream handler, Error called in that handler dispatches against the
\* Mux of the innermost wrapper, never against the Mux of an outer one: the
\* handler called is the one the inner registry selects.
C14_InnermostMuxWins ==
    \A p \in NestedTwo :
        LET f == FrameAt(p)
            t == p[1]
            W == Wrappers(t, p[2])
            inner == frames[t][Newest(W)].m
        IN  /\ f.m = inner
            /\ \A j \in W : frames[t][j].m # inner => f.m # frames[t][j].m
            /\ f.pc = "Return" => Called(f, Expected(handlersStack[inner], f.err))

C14_Witness ==
    \E p \in NestedTwo \cap Dispatched :
        LET f == FrameAt(p)
            t == p[1]
            W == Wrappers(t, p[2])
        IN  /\ Called(f, Expected(handlersStack[f.m], f.err))
            /\ \E j \in W :
                  /\ frames[t][j].m # f.m
                  /\ Expected(handlersStack[frames[t][j].m], f.err)
                        # Expected(handlersStack[f.m], f.err)
\* the frames of GetUnknownHandler that hold the value they return
Returning ==
    UNION {{<<t, k>> : k \in {k \in 1..Len(frames[t]) :
                                 /\ frames[t][k].fn = "GetUnknownHandler"
                                 /\ frames[t][k].pc = "Return"}} :
              t \in Threads}

\* C15: GetUnknownHandler returns DefaultUnknownHandler on a Mux on which no
\* UnknownHandler call has completed, and otherwise the handler passed to
\* the last UnknownHandler call that completed; the Handle calls made in
\* between do not change what it returns.
C15_GetUnknownHandlerReturns ==
    \A p \in Returning :
        LET f == FrameAt(p)
        IN  /\ f.h = hist[f.m].unknown
            /\ f.h = handlersStack[f.m][1].handler

C15_Witness ==
    \E p \in Returning :
        LET f == FrameAt(p)
            st == handlersStack[f.m]
        IN  /\ f.h # DefaultUnknownHandler
            /\ f.h = hist[f.m].unknown
            /\ \E j \in 2..Len(st) : st[j].handler > f.h
            /\ \E j \in 2..Len(st) : st[j].handler < f.h
\* the sentinels of the entries of st that are in the wrap-chain of E
MatchedSentinels(st, E) == {st[j].err : j \in Matching(st, E)}

\* C16: when the wrap-chain of the dispatched error holds the sentinels of
\* several entries, Error calls the handler of the matching entry with the
\* highest index, the one registered last, however deep in the chain each
\* of the sentinels sits.
C16_NewestMatchWins ==
    \A p \in Dispatched :
        LET f == FrameAt(p)
            st == handlersStack[f.m]
        IN  Cardinality(MatchedSentinels(st, f.err)) >= 2
                => /\ Called(f, st[Newest(Matching(st, f.err))])
                   /\ \A j \in Matching(st, f.err) :
                         j # Newest(Matching(st, f.err)) => f.inv[1].h # st[j].handler

C16_Witness ==
    \E p \in Dispatched :
        LET f == FrameAt(p)
            st == handlersStack[f.m]
        IN  \E j1, j2 \in Matching(st, f.err) :
                /\ j1 < j2
                /\ j2 = Len(st)
                /\ Len(st[j1].err) > Len(st[j2].err)
                /\ Len(f.err) > Len(st[j1].err)
                /\ Called(f, st[j2])
\* goroutine t takes a step in the frame that is on top of its stack
Steps(t) == frames[t] # <<>> /\ frames'[t] # frames[t]

\* C17: a step changes the entry sequence of a Mux in one of two ways only.
\* Handle, past its checks, appends its entry at the end, whether or not the
\* sentinel is registered already, and leaves the earlier entries alone;
\* UnknownHandler replaces the handler of slot 0 and leaves the length and
\* the later entries alone.  No step of Error, GetUnknownHandler, the Handler
\* wrapper or a handler changes the sequence: the length never decreases
\* and no entry behind slot 0 is removed, moved or rewritten.
C17_AppendOnlyBehindSlotZero ==
    [][\A m \in Muxes :
          LET st == handlersStack[m]
              st2 == handlersStack'[m]
          IN  /\ \/ st2 = st
                 \/ \E t \in Threads :
                       /\ Steps(t)
                       /\ Running(t, "Handle", "Write")
                       /\ Top(t).m = m
                       /\ st2 = Append(st, handlerStruct(Top(t).err, Top(t).h))
                 \/ \E t \in Threads :
                       /\ Steps(t)
                       /\ Running(t, "UnknownHandler", "Locked")
                       /\ Top(t).m = m
                       /\ st2 = [st EXCEPT ![1] = handlerStruct(Nil, Top(t).h)]
              /\ Len(st2) >= Len(st)
              /\ \A j \in 2..Len(st) : st2[j] = st[j]
              /\ \A t \in Threads :
                    (Steps(t) /\ Top(t).fn \notin {"Handle", "UnknownHandler"}) => st2 = st
              /\ \A t \in Threads :
                    (Running(t, "Handle", "Return") /\ Top(t).m = m)
                        => st[Len(st)] = handlerStruct(Top(t).err, Top(t).h)
      ]_vars

C17_Witness ==
    \E t \in Threads :
        LET st == handlersStack[Top(t).m]
        IN  /\ Running(t, "Handle", "Return")
            /\ st[Len(st)] = handlerStruct(Top(t).err, Top(t).h)
            /\ \E j \in 2..(Len(st) - 1) : st[j].err = Top(t).err
            /\ st[1].handler # DefaultUnknownHandler
\* the frames that are inside the write lock, or the read lock, of Mux m
WritersIn(m) ==
    UNION {{<<t, k>> : k \in {k \in 1..Len(frames[t]) :
                                 HoldsLock(frames[t][k]) /\ frames[t][k].m = m}} :
              t \in Threads}

ReadersIn(m) ==
    UNION {{<<t, k>> : k \in {k \in 1..Len(frames[t]) :
                                 HoldsRLock(frames[t][k]) /\ frames[t][k].m = m}} :
              t \in Threads}

\* C18: from the step in which an Error call gets the read lock until the
\* handler it called has returned, no Handle or UnknownHandler call on the
\* same Mux takes effect: the registry stays as it was and no such call
\* returns; no writer is inside its critical section together with a reader
\* or with another writer; and the handler called is the one the registry
\* selects, which is the registry as it was when the read lock was taken.
C18_ReadersExcludeWriters ==
    [][\A m \in Muxes :
          /\ ReadersIn(m) # {}
                => /\ handlersStack'[m] = handlersStack[m]
                   /\ hist'[m] = hist[m]
                   /\ WritersIn(m) = {}
                   /\ WritersIn(m)' = {}
          /\ Cardinality(WritersIn(m)') <= 1
          /\ WritersIn(m)' # {} => ReadersIn(m)' = {}
          /\ \A p \in ErrorFrames' :
                LET f == frames'[p[1]][p[2]]
                IN  (f.m = m /\ f.pc = "Return")
                        => f.inv = <<[h |-> Expected(handlersStack'[m], f.err).handler,
                                      err |-> f.err]>>
      ]_vars

C18_Witness ==
    \E p \in Dispatched : \E u \in Threads :
        /\ u # p[1]
        /\ Top(p[1]).fn = "ErrorHandlerFunc"
        /\ Top(p[1]).pc = "Body"
        /\ frames[u] # <<>>
        /\ Top(u).fn = "UnknownHandler"
        /\ Top(u).pc = "LockWait"
        /\ Top(u).m = FrameAt(p).m
\* C19: under fair scheduling, with handlers that return and do not call
\* back into the Mux, every call of Handle, UnknownHandler, GetUnknownHandler
\* and Error made by concurrent goroutines on one Mux returns (normally or
\* by its panic): a goroutine that is inside a call is outside all calls
\* later on.  Error returns in its next step once its handler has returned.
C19_CallsReturn ==
    /\ \A t \in Threads : (frames[t] # <<>>) ~> (frames[t] = <<>>)
    /\ [][\A t \in Threads :
             (Running(t, "Error", "Return") /\ Steps(t))
                 => frames'[t] = SubSeq(frames[t], 1, Len(frames[t]) - 1)
         ]_vars

C19_Witness ==
    \E t, u \in Threads :
        /\ Running(t, "Error", "RLock")
        /\ Running(u, "Handle", "Write")
        /\ Top(t).m = Top(u).m
        /\ mu[Top(u).m].held
        /\ mu[Top(u).m].writer = u
\* the stack fr has a frame of function fn
Has(fr, fn) == \E k \in 1..Len(fr) : fr[k].fn = fn

\* C20: the wrapper returned by m.Handler(next) calls next exactly once per
\* request and passes it a derived request whose context carries m on top
\* of the context it received; the request of its caller and that context
\* stay as they were.  The wrapper touches neither the Mux nor the response
\* and calls no error handler: as long as next has not called Error no
\* handler, registered or unknown, runs and nothing is written.
C20_WrapperCallsNextOnce ==
    [][\A t \in Threads :
          /\ (Running(t, "Handler", "Serve") /\ Steps(t))
                => /\ Len(frames'[t]) = Len(frames[t]) + 1
                   /\ frames'[t][Len(frames[t])] = [Top(t) EXCEPT !.pc = "Return"]
                   /\ frames'[t][Len(frames'[t])].fn \in {"next", "Handler"}
                   /\ frames'[t][Len(frames'[t])].pc \in {"Body", "Serve"}
                   /\ frames'[t][Len(frames'[t])].ctx
                         = Top(t).ctx \o <<[key |-> keyContext, val |-> Top(t).m]>>
                   /\ getMux(frames'[t][Len(frames'[t])].ctx) = Top(t).m
                   /\ <<handlersStack, mu, hist, w, status>>' = <<handlersStack, mu, hist, w, status>>
          /\ (Running(t, "Handler", "Return") /\ Steps(t))
                => frames'[t] = SubSeq(frames[t], 1, Len(frames[t]) - 1)
          /\ \A k \in 1..Len(frames[t]) :
                (frames[t][k].fn = "Handler" /\ k <= Len(frames'[t]))
                    => frames'[t][k].ctx = frames[t][k].ctx
          /\ ~(\E k \in 1..Len(frames'[t]) :
                   frames'[t][k].fn = "next" /\ frames'[t][k].pc = "Done")
                => /\ ~Has(frames'[t], "Error")
                   /\ ~Has(frames'[t], "ErrorHandlerFunc")
          /\ (w'[t] # w[t] /\ w'[t] # <<>>)
                => (frames[t] # <<>> /\ Top(t).fn = "ErrorHandlerFunc")
      ]_vars

C20_Witness ==
    \E t \in Threads :
        /\ Running(t, "next", "Body")
        /\ Nesting(t) = MaxNest
        /\ Len(frames[t]) = MaxNest + 1
        /\ frames[t][MaxNest].ctx # <<>>
        /\ Top(t).ctx = WithValue(frames[t][MaxNest].ctx, keyContext, frames[t][MaxNest].m)
        /\ w[t] = <<>>
        /\ Len(handlersStack[Top(t).ctx[1].val]) >= 2
\* C21: when the handler called by Error panics, the read lock of that Error
\* call is released while the panic propagates: the reader count of a Mux
\* always equals the number of calls that are inside its read lock, the
\* panic leaving Error gives back one read lock, and no step of the
\* panicking goroutine changes an entry sequence.  The Mux is not left
\* locked, so a Handle or UnknownHandler call gets the write lock afterwards.
C21_PanicReleasesReadLock ==
    [][/\ \A m \in Muxes : mu'[m].readers = Cardinality(ReadersIn(m)')
       /\ \A t \in Threads :
             /\ (status'[t] = PanicInHandler /\ frames'[t] # frames[t])
                   => handlersStack' = handlersStack
             /\ (status[t] = PanicInHandler /\ Steps(t) /\ Top(t).fn = "Error")
                   => /\ mu'[Top(t).m].readers = mu[Top(t).m].readers - 1
                      /\ frames'[t] = SubSeq(frames[t], 1, Len(frames[t]) - 1)
             /\ (status'[t] = PanicInHandler /\ ~Has(frames'[t], "Error"))
                   => \A m \in Muxes :
                         /\ mu'[m].writer # t
                         /\ mu'[m].readers
                               = Cardinality({p \in ReadersIn(m)' : p[1] # t})
      ]_vars

C21_Witness ==
    \E t, u \in Threads :
        /\ status[t] = PanicInHandler
        /\ ~Has(frames[t], "Error")
        /\ Running(u, "Handle", "Return")
        /\ mu[Top(u).m].held
        /\ mu[Top(u).m].readers = 0
        /\ Len(handlersStack[Top(u).m]) = 3

\* goroutine t asks for the read lock of m in an Error call nested in an
\* Error call of its own that holds it, while goroutine u waits for the
\* write lock of m
NestedReaderAndWriter(t, u, m) ==
    /\ t # u
    /\ Running(t, "Error", "RLock")
    /\ Top(t).m = m
    /\ \E k \in 1..(Len(frames[t]) - 1) :
          /\ frames[t][k].fn = "Error"
          /\ frames[t][k].m = m
          /\ HoldsRLock(frames[t][k])
    /\ frames[u] # <<>>
    /\ Top(u).fn \in {"Handle", "UnknownHandler"}
    /\ Top(u).pc = "LockWait"
    /\ Top(u).m = m
    /\ mu[m].writer = u

\* C22: a handler that calls Error again on the same Mux can block for
\* ever.  Once another goroutine has started to wait for the write lock
\* between the outer RLock and the nested one, the nested Error waits for
\* the writer, the writer waits for the outer Error, and the outer Error
\* waits for its handler: neither goroutine takes a step any more and the
\* lock stays as it is.
C22_NestedErrorDeadlock ==
    [][\A t, u \in Threads : \A m \in Muxes :
          NestedReaderAndWriter(t, u, m)
              => /\ frames'[t] = frames[t]
                 /\ frames'[u] = frames[u]
                 /\ status'[t] = "run" /\ status'[u] = "run"
                 /\ mu'[m].writer = u
                 /\ ~mu'[m].held
                 /\ mu'[m].readers >= 1
                 /\ handlersStack'[m] = handlersStack[m]
      ]_vars

C22_Witness ==
    \E t, u \in Threads : \E m \in Muxes :
        /\ NestedReaderAndWriter(t, u, m)
        /\ Len(frames[t]) >= 5
        /\ frames[t][Len(frames[t]) - 1].fn = "ErrorHandlerFunc"
        /\ frames[t][Len(frames[t]) - 1].pc = "Called"
        /\ ~mu[m].held
\* the frames of Error of the map-based revisions, as <<goroutine, position>>
ErrorMapFrames ==
    UNION {{<<t, k>> : k \in {k \in 1..Len(frames[t]) : frames[t][k].fn = "ErrorMap"}} :
              t \in Threads}

\* C23: in the map-based revisions Error on a request to which no handler
\* table was bound falls back: it does not panic, and it calls
\* DefaultUnknownHandler with the error and returns.
C23_UnboundFallsBack ==
    \A p \in ErrorMapFrames :
        LET f == FrameAt(p)
        IN  (\A k \in 1..Len(f.ctx) : f.ctx[k].key # keyHandlers)
                => /\ status[p[1]] = "run"
                   /\ f.pc = "Return"
                   /\ f.inv = <<[h |-> DefaultUnknownHandler, err |-> f.err]>>

\* C24: in each map-based revision a non-nil error that matches no key of
\* the table bound to the request is routed to the unknown handler, the
\* handler stored under the nil key: exactly one handler runs, that one.
C24_UnmatchedRoutedToUnknown ==
    \A p \in ErrorMapFrames :
        LET f == FrameAt(p)
        IN  (/\ f.m \in Muxes
             /\ f.err # Nil
             /\ \A k \in DOMAIN handlers[f.m] : ~Is(f.err, k))
                => f.inv = <<[h |-> handlers[f.m][Nil], err |-> f.err]>>
====
